---- MODULE Spec2Model ----
(***************************************************************************)
(* AvatarOS capture core: the CameraView component (camera lifecycle,      *)
(* detection-phase state machine, settle timer, timed recording loop), the *)
(* useFaceDetection hook (model loading, animation-frame polling chain)    *)
(* and the captureFrameFromVideo sampler.                                  *)
(*                                                                         *)
(* One action is one JavaScript task (a promise continuation, a timer or   *)
(* animation-frame callback, a click) together with the React render it    *)
(* causes and the effects that render re-runs, up to the fixpoint.         *)
(* Time is relative: the settle timer carries the milliseconds left on it, *)
(* and the recording closure the milliseconds since its startTime.         *)
(***************************************************************************)
EXTENDS Integers, Sequences, FiniteSets

\* ---------------------------------------------------------------- constants

\* CameraView recording effect: const phaseDuration = 2500
phaseDuration == 2500
\* CameraView recording effect: const totalPhases = 5
totalPhases == 5
\* CameraView recording effect: setInterval(..., 50)
tickMs == 50
\* CameraView auto-detection effect: setTimeout(..., 1000)
settleMs == 1000
\* const totalDuration = phaseDuration * totalPhases
totalDuration == phaseDuration * totalPhases

\* ------------------------------------------------------------------- bounds

\* How many interval periods late the host may run a recording tick
\* (delayed / dropped ticks).
MaxLate == 1
\* How many times the manual capture button of one component is pressed,
\* and how many nextStep timers are left pending at a press.
MaxCaptures == 4

VARIABLES
  \* the component that calls useFaceDetection: CameraView, standing alone
  \* or under IdentityVerificationApp, or a host that passes isActive itself
  caller,
  \* CameraView props
  isVideo, autoStart, onFrameCapture,
  \* CameraView React state
  mounted, hasStream, cameraError, isRecording, progress, detectionState,
  moveInstruction, capturedFrames,
  \* camera effect: the getUserMedia promise and the closure variable stream
  camPromise, stream,
  \* how many times the camera effect's cleanup has called stop() on the
  \* stream's tracks
  trackStops,
  \* the video element's readyState === 4
  videoReady,
  \* auto-detection effect: ms left on detectTimeout, -1 when none is pending
  detectTimeout,
  \* recording effect closure: interval, Date.now() - startTime as the latest
  \* interval callback read it, lastPhase, frames
  interval, elapsed, lastPhase, frames,
  \* the timers set by the recording effect's setInterval and not cleared
  liveIntervals,
  \* useFaceDetection: argument, React state, refs, promises
  isActive, model, isLoading, error, faceData, loadPromise, isMounted,
  isRunningRef, animationRef, rafPending, rafOrphans, inflight, inflightStale,
  \* observation of the callbacks (history)
  onCaptureCalls, delivered, notified, phasesSeen, onSchedule, samplesOk,
  sinceDetected, lateObservation, passThrew,
  \* one call of checkFaceCentered: its arguments and its return value
  face, videoWidth, videoHeight, checkResult,
  \* IdentityVerificationApp: its React state, whether the current persona
  \* has a stored texture photo, and the pending setTimeout(() =>
  \* nextStep(), ...) timers
  step, photoTaken, videoTaken, currentPersona, texturePhoto, nextStepTimers,
  \* personaStorage: the item stored under STORAGE_KEY (none, or one string),
  \* Date.now() in ms, and the latest call with the persona it returned
  localStorage, dateNow, called, returned

propVars == <<caller, isVideo, autoStart, onFrameCapture>>
geomVars == <<face, videoWidth, videoHeight, checkResult>>
flowVars == <<step, photoTaken, videoTaken, currentPersona, texturePhoto,
              nextStepTimers>>
viewVars == <<mounted, hasStream, cameraError, isRecording, progress,
              detectionState, moveInstruction, capturedFrames>>
camVars == <<camPromise, stream, trackStops>>
recVars == <<interval, elapsed, lastPhase, frames, liveIntervals>>
hookVars == <<isActive, model, isLoading, error, faceData, loadPromise, isMounted>>
chainVars == <<isRunningRef, animationRef, rafPending, rafOrphans, inflight,
               inflightStale>>
histVars == <<onCaptureCalls, delivered, notified, phasesSeen, onSchedule,
              samplesOk, sinceDetected, lateObservation, passThrew>>
storeVars == <<localStorage, dateNow, called, returned>>
vars == <<propVars, geomVars, flowVars, storeVars, viewVars, camVars, videoReady, detectTimeout, recVars,
          hookVars, chainVars, histVars>>

Min(a, b) == IF a < b THEN a ELSE b

noFace == [detected |-> FALSE, centered |-> FALSE]

\* ----------------------------------------------------------- Frame Sampler

\* ClearInterval with a fault: the timer is left running.
ClearInterval_Missing(n) == n

\* clearInterval(interval), in the recording effect's cleanup and in the
\* completing tick: of the n timers live, the closure's own is cleared if
\* it still is live.
ClearInterval(n) == IF interval THEN n - 1 ELSE n

\* The camera effect's cleanup, if (stream) stream.getTracks().forEach(
\* track => track.stop()): the calls of stop() on a track after n earlier
\* ones.
StopTracks(n) == IF stream # "none" THEN n + 1 ELSE n

\* StopsByCapture with a fault: the capture releases the camera itself.
StopsByCapture_Releases(n) == IF stream # "none" THEN n + 1 ELSE n

\* handleManualCapture samples the video and calls nothing on the stream.
StopsByCapture(n) == n

\* captureFrameFromVideo's null result
NullFrame == -1

\* captureFrameFromVideo(videoElement, quality): null when there is no element
\* or readyState !== 4, otherwise the (mirrored, encoded) current image.
\* hasElement: videoElement is not null; ready: readyState === 4;
\* image: what the video shows now (identified by a number >= 0).
captureFrameFromVideo(hasElement, ready, image) ==
  IF ~hasElement \/ ~ready THEN NullFrame ELSE image

\* videoRef.current: the <video> element exists while the component is
\* mounted and the fallback pattern is not rendered in its place.
VideoRefCurrent(isMountedNow, camErr) == isMountedNow /\ ~camErr

\* ------------------------------------------------------ checkFaceCentered

\* const toleranceX = videoWidth * 0.15 (and toleranceY), in percent
tolerancePct == 15
\* faceRatio > 0.05, in percent
minAreaPct == 5
\* faceRatio < 0.4, in percent
maxAreaPct == 40

Abs(n) == IF n < 0 THEN -n ELSE n

\* A prediction's box <<topLeft, bottomRight>>, each corner <<x, y>>; <<>> is
\* a missing face.
Box(x1, y1, x2, y2) == <<<<x1, y1>>, <<x2, y2>>>>

\* Twice faceCenterX - videoCenterX, where faceCenterX = x1 + faceWidth / 2
\* and videoCenterX = videoWidth / 2 (and the same vertically).
TwiceOffsetX(f, vw) == 2 * f[1][1] + (f[2][1] - f[1][1]) - vw
TwiceOffsetY(f, vh) == 2 * f[1][2] + (f[2][2] - f[1][2]) - vh

\* faceArea = faceWidth * faceHeight
FaceArea(f) == (f[2][1] - f[1][1]) * (f[2][2] - f[1][2])

\* checkFaceCentered with a fault: the vertical offset is not looked at.
checkFaceCentered_NoVerticalCheck(f, vw, vh) ==
  IF f = <<>> THEN FALSE
  ELSE /\ Abs(TwiceOffsetX(f, vw)) * 100 < 2 * tolerancePct * vw
       /\ FaceArea(f) * 100 > minAreaPct * (vw * vh)
       /\ FaceArea(f) * 100 < maxAreaPct * (vw * vh)

\* checkFaceCentered with a fault: the four comparisons admit equality.
checkFaceCentered_Inclusive(f, vw, vh) ==
  IF f = <<>> THEN FALSE
  ELSE /\ Abs(TwiceOffsetX(f, vw)) * 100 <= 2 * tolerancePct * vw
       /\ Abs(TwiceOffsetY(f, vh)) * 100 <= 2 * tolerancePct * vh
       /\ FaceArea(f) * 100 >= minAreaPct * (vw * vh)
       /\ FaceArea(f) * 100 <= maxAreaPct * (vw * vh)

\* checkFaceCentered(face, videoWidth, videoHeight). The comparisons of the
\* source, Math.abs(faceCenterX - videoCenterX) < videoWidth * 0.15 and
\* 0.05 < faceArea / videoArea < 0.4, are made on integers after
\* multiplying both sides by 200 and by 100 * videoArea (for the integer
\* boxes and frame sides used here the doubles of the source compare the
\* same way).
checkFaceCentered(f, vw, vh) ==
  IF f = <<>> THEN FALSE
  ELSE LET isCenteredX == Abs(TwiceOffsetX(f, vw)) * 100 < 2 * tolerancePct * vw
           isCenteredY == Abs(TwiceOffsetY(f, vh)) * 100 < 2 * tolerancePct * vh
           faceArea == FaceArea(f)
           videoArea == vw * vh
           isProperSize == /\ faceArea * 100 > minAreaPct * videoArea
                           /\ faceArea * 100 < maxAreaPct * videoArea
       IN isCenteredX /\ isCenteredY /\ isProperSize

\* ------------------------------------------------- recording tick arithmetic

\* currentProgress = Math.min((elapsed / totalDuration) * 100, 100), kept
\* exactly as the numerator of a fraction over totalDuration (for integer
\* milliseconds the doubles of the source give the same phase index).
CurrentProgress(e) == Min(e * 100, 100 * totalDuration)

\* currentPhase = Math.floor((currentProgress / 100) * totalPhases)
CurrentPhase(p) == (p * totalPhases) \div (100 * totalDuration)

\* if (currentProgress >= 100)
ProgressDone(p) == p >= 100 * totalDuration

\* PhaseChanged with a fault: every tick counts as a phase change.
PhaseChanged_Always(ph, last) == TRUE

\* currentPhase !== lastPhase
PhaseChanged(ph, last) == ph # last

\* ------------------------------------------------- detection-phase machine

\* AutoDetectStep with a fault: `scanning` is left for any detected face,
\* centered or not.
AutoDetectStep_AnyFace(ds, hs, ready, fd) ==
  IF ~isVideo \/ ~autoStart \/ ~hs THEN ds
  ELSE IF ds = "initializing" /\ ready THEN "scanning"
  ELSE IF ds = "scanning" /\ fd.detected THEN "detected"
  ELSE ds

\* AutoDetectStep with a fault: `initializing` is left as soon as hasStream
\* holds, without waiting for the model.
AutoDetectStep_NoModelGate(ds, hs, ready, fd) ==
  IF ~isVideo \/ ~autoStart \/ ~hs THEN ds
  ELSE IF ds = "initializing" THEN "scanning"
  ELSE IF ds = "scanning" /\ fd.detected /\ fd.centered THEN "detected"
  ELSE ds

\* AutoDetectStep with a fault: centering is re-validated during the settle
\* window, and its loss sends the coordinator back to `scanning`.
AutoDetectStep_Revalidate(ds, hs, ready, fd) ==
  IF ~isVideo \/ ~autoStart \/ ~hs THEN ds
  ELSE IF ds = "initializing" /\ ready THEN "scanning"
  ELSE IF ds = "scanning" /\ fd.detected /\ fd.centered THEN "detected"
  ELSE IF ds = "detected" /\ ~(fd.detected /\ fd.centered) THEN "scanning"
  ELSE ds

\* The value one run of the auto-detection effect passes to
\* setDetectionState (ds itself when it calls none).
AutoDetectStep(ds, hs, ready, fd) ==
  IF ~isVideo \/ ~autoStart \/ ~hs THEN ds
  ELSE IF ds = "initializing" /\ ready THEN "scanning"
  ELSE IF ds = "scanning" /\ fd.detected /\ fd.centered THEN "detected"
  ELSE ds

\* The effect re-runs after every render that changed detectionState, until
\* a run sets nothing.
RECURSIVE AutoDetectSettle(_, _, _, _)
AutoDetectSettle(ds, hs, ready, fd) ==
  LET next == AutoDetectStep(ds, hs, ready, fd)
  IN IF next = ds THEN ds ELSE AutoDetectSettle(next, hs, ready, fd)

\* Whether a run of the auto-detection effect with this state leaves a
\* settle timer pending: setTimeout(..., 1000) when detectionState is
\* "detected" and the effect did not return early.
ArmsDetectTimeout(ds, hs) ==
  isVideo /\ autoStart /\ hs /\ ds = "detected"

\* IsActiveArg with a fault: cameraError is not looked at.
IsActiveArg_IgnoresError(hs, camErr, ds) == hs /\ (isVideo \/ ds # "idle")

\* The second argument of useFaceDetection in CameraView.
IsActiveArg(hs, camErr, ds) == hs /\ ~camErr /\ (isVideo \/ ds # "idle")

\* The same argument in the render that receives isVideo = iv.
IsActiveArgWith(iv, hs, camErr, ds) == hs /\ ~camErr /\ (iv \/ ds # "idle")

\* isModelReady: !!model
IsModelReady(m) == m = "loaded"

\* ------------------------------------------------- detector polling chain

\* The refs and pending callbacks of the polling chain as one value.
Chain == [run |-> isRunningRef, anim |-> animationRef, raf |-> rafPending,
          orphans |-> rafOrphans, fresh |-> inflight, stale |-> inflightStale]

\* animationRef.current = requestAnimationFrame(runDetection): the frame
\* requested before, if still pending, stays pending but is no longer
\* referenced.
RequestFrame(c) ==
  [c EXCEPT !.anim = TRUE, !.raf = TRUE,
            !.orphans = @ + (IF c.raf THEN 1 ELSE 0)]

\* cancelAnimationFrame(animationRef.current)
CancelFrame(c) == [c EXCEPT !.raf = FALSE]

\* DetectFace with a fault: readyState is not looked at, the model is
\* invoked on every tick.
DetectFace_IgnoresReady(c, canRun) == [c EXCEPT !.fresh = @ + 1]

\* await detectFace() as runDetection calls it, and runDetection's next
\* line when detectFace returns without awaiting the model. canRun: the
\* guards of detectFace pass (model, videoRef.current, isActive of the
\* closure, readyState === 4).
DetectFace(c, canRun) ==
  IF canRun THEN [c EXCEPT !.fresh = @ + 1] ELSE RequestFrame(c)

\* runDetection with a fault: isRunningRef.current is not looked at.
RunDetection_NoRunningCheck(c, canRun) == DetectFace(c, canRun)

\* runDetection
RunDetection(c, canRun) == IF ~c.run THEN c ELSE DetectFace(c, canRun)

\* The cleanup the detection loop effect returns.
LoopCleanup(c) ==
  [CancelFrame(c) EXCEPT !.run = FALSE, !.stale = @ + c.fresh, !.fresh = 0]

\* The detection loop effect after a render: m0, a0 are !!model and isActive
\* of the previous render, m1, a1 of this one.
LoopEffect(c, m0, a0, m1, a1, canRun) ==
  IF m0 = m1 /\ a0 = a1 THEN c
  ELSE LET d == IF m0 /\ a0 THEN LoopCleanup(c) ELSE c
       IN IF ~m1 \/ ~a1
          THEN (IF d.anim THEN [CancelFrame(d) EXCEPT !.run = FALSE] ELSE d)
          ELSE RunDetection([d EXCEPT !.run = TRUE], canRun)

SetChain(c) ==
  /\ isRunningRef' = c.run
  /\ animationRef' = c.anim
  /\ rafPending' = c.raf
  /\ rafOrphans' = c.orphans
  /\ inflight' = c.fresh
  /\ inflightStale' = c.stale

\* ------------------------------------------------------------------ render

\* A render of CameraView after a task set hasStream, cameraError,
\* detectionState (dsBase), model or faceData, with the effects it re-runs:
\* the auto-detection effect (to its fixpoint, replacing its pending settle
\* timer when one of its dependencies changed) and the hook's detection
\* loop effect. c is the polling chain as the task left it. Under another
\* caller the hook's isActive argument is what that caller passed last.
AfterRender(hs1, ce1, dsBase, m1, fd1, c, canRun) ==
  LET ds1 == AutoDetectSettle(dsBase, hs1, IsModelReady(m1), fd1)
      a1 == IF caller # "host" THEN IsActiveArg(hs1, ce1, ds1)
            ELSE isActive
      depsChanged ==
        <<ds1, hs1, IsModelReady(m1), fd1.detected, fd1.centered>> #
        <<detectionState, hasStream, IsModelReady(model), faceData.detected,
          faceData.centered>>
  IN /\ hasStream' = hs1
     /\ cameraError' = ce1
     /\ detectionState' = ds1
     /\ model' = m1
     /\ faceData' = fd1
     /\ isActive' = a1
     /\ detectTimeout' =
          IF depsChanged
          THEN (IF ArmsDetectTimeout(ds1, hs1) THEN settleMs ELSE -1)
          ELSE detectTimeout
     /\ sinceDetected' =
          IF ds1 = "detected" /\ detectionState # "detected" THEN 0
          ELSE sinceDetected
     /\ SetChain(LoopEffect(c, IsModelReady(model), isActive,
                            IsModelReady(m1), a1, canRun))

\* What AfterRender assigns, left alone.
NoRender ==
  UNCHANGED <<hasStream, cameraError, detectionState, model, faceData,
              isActive, detectTimeout, sinceDetected>>

\* detectFace's guards at the time of a call, for the chain's closures.
CanRun == VideoRefCurrent(mounted, cameraError) /\ videoReady

\* ------------------------------------------------------------------- Init

\* No call of checkFaceCentered is followed.
NoCheck ==
  /\ face = <<>>
  /\ videoWidth = 0
  /\ videoHeight = 0
  /\ checkResult = <<>>

\* No call of personaStorage is followed.
NoStore ==
  /\ localStorage = <<>>
  /\ dateNow = 1
  /\ called = [op |-> "none", id |-> 0, arg |-> <<>>]
  /\ returned = <<>>

\* No flow controller is followed: the component stands alone.
NoFlow ==
  /\ step = 0
  /\ photoTaken = FALSE
  /\ videoTaken = FALSE
  /\ currentPersona = FALSE
  /\ texturePhoto = FALSE
  /\ nextStepTimers = 0

\* The recording closure, the hook's state and refs and the history after
\* the first render of a component that has not acquired a camera yet.
InitHookAndRecorder ==
  /\ interval = FALSE
  /\ liveIntervals = 0
  /\ elapsed = 0
  /\ lastPhase = -1
  /\ frames = <<>>
  /\ model = "null"
  /\ isLoading = TRUE
  /\ error = FALSE
  /\ faceData = noFace
  /\ loadPromise = "pending"
  /\ isMounted = TRUE
  /\ isRunningRef = FALSE
  /\ animationRef = FALSE
  /\ rafPending = FALSE
  /\ rafOrphans = 0
  /\ inflight = 0
  /\ inflightStale = 0
  /\ onCaptureCalls = 0
  /\ delivered = <<>>
  /\ notified = <<>>
  /\ phasesSeen = {}
  /\ onSchedule = TRUE
  /\ samplesOk = TRUE
  /\ sinceDetected = 0
  /\ lateObservation = FALSE
  /\ passThrew = FALSE

Init ==
  /\ caller = "CameraView"
  \* <CameraView isVideo={false} /> or <CameraView isVideo={true} autoStart={true} />
  /\ \E mode \in {<<FALSE, FALSE>>, <<TRUE, TRUE>>} :
       isVideo = mode[1] /\ autoStart = mode[2]
  /\ onFrameCapture \in BOOLEAN
  /\ NoCheck
  /\ NoFlow
  /\ NoStore
  /\ mounted = TRUE
  /\ hasStream = FALSE
  /\ cameraError = FALSE
  /\ isRecording = FALSE
  /\ progress = 0
  /\ detectionState = IF autoStart THEN "initializing" ELSE "idle"
  /\ moveInstruction = 0
  /\ capturedFrames = <<>>
  /\ camPromise = "pending"
  /\ stream = "none"
  /\ trackStops = 0
  /\ videoReady = FALSE
  /\ detectTimeout = -1
  /\ isActive = FALSE
  /\ InitHookAndRecorder

\* ----------------------------------------------------------------- camera

\* startCamera: getUserMedia resolves.
CameraGranted ==
  /\ camPromise = "pending"
  /\ camPromise' = "resolved"
  /\ stream' = "live"
  /\ IF VideoRefCurrent(mounted, cameraError)
     THEN AfterRender(TRUE, FALSE, detectionState, model, faceData, Chain,
                      CanRun)
     ELSE NoRender /\ UNCHANGED chainVars
  /\ UNCHANGED <<propVars, geomVars, flowVars, storeVars, trackStops, mounted, isRecording, progress, moveInstruction,
                 capturedFrames, videoReady, recVars, isLoading, error,
                 loadPromise, isMounted, onCaptureCalls, delivered, notified,
                 phasesSeen, onSchedule, samplesOk, lateObservation,
                 passThrew>>

\* CameraDenied with a fault: the catch block sets cameraError but not
\* hasStream.
CameraDenied_NoFallback ==
  /\ camPromise = "pending"
  /\ camPromise' = "rejected"
  /\ IF mounted
     THEN AfterRender(hasStream, TRUE, detectionState, model, faceData, Chain,
                      FALSE)
     ELSE NoRender /\ UNCHANGED chainVars
  /\ UNCHANGED <<propVars, geomVars, flowVars, storeVars, mounted, isRecording, progress,
                 moveInstruction, capturedFrames, stream, trackStops, videoReady,
                 recVars,
                 isLoading, error, loadPromise, isMounted, histVars>>

\* startCamera: getUserMedia rejects (the catch block).
CameraDenied ==
  /\ camPromise = "pending"
  /\ camPromise' = "rejected"
  /\ IF mounted
     THEN AfterRender(TRUE, TRUE, detectionState, model, faceData, Chain,
                      FALSE)
     ELSE NoRender /\ UNCHANGED chainVars
  /\ UNCHANGED <<propVars, geomVars, flowVars, storeVars, mounted, isRecording, progress, moveInstruction,
                 capturedFrames, stream, trackStops, videoReady, recVars,
                 isLoading, error,
                 loadPromise, isMounted, onCaptureCalls, delivered, notified,
                 phasesSeen, onSchedule, samplesOk, lateObservation,
                 passThrew>>

\* The video element reaches or leaves readyState 4 (buffering, stalls).
VideoReadyChange ==
  /\ mounted /\ hasStream /\ ~cameraError /\ stream = "live"
  /\ videoReady' = ~videoReady
  /\ UNCHANGED <<propVars, geomVars, flowVars, storeVars, viewVars, camVars, detectTimeout, recVars, hookVars,
                 chainVars, histVars>>

\* Unmount with a fault: the auto-detection and recording effects return
\* no cleanup, so their timer and interval stay pending.
Unmount_TimersLeft ==
  /\ mounted
  /\ mounted' = FALSE
  /\ isMounted' = FALSE
  /\ stream' = IF stream = "live" THEN "stopped" ELSE stream
  /\ trackStops' = StopTracks(trackStops)
  /\ videoReady' = FALSE
  /\ SetChain(IF IsModelReady(model) /\ isActive THEN LoopCleanup(Chain)
              ELSE Chain)
  /\ UNCHANGED <<propVars, geomVars, flowVars, storeVars, hasStream, cameraError, isRecording,
                 progress, detectionState, moveInstruction, capturedFrames,
                 camPromise, detectTimeout, interval, liveIntervals, elapsed,
                 lastPhase, frames, isActive, model, isLoading, error, faceData,
                 loadPromise, histVars>>

\* The cleanups of all effects on unmount.
UnmountView ==
  /\ mounted
  /\ mounted' = FALSE
  /\ isMounted' = FALSE
  /\ stream' = IF stream = "live" THEN "stopped" ELSE stream
  /\ trackStops' = StopTracks(trackStops)
  /\ detectTimeout' = -1
  /\ interval' = FALSE
  /\ liveIntervals' = ClearInterval(liveIntervals)
  /\ videoReady' = FALSE
  /\ SetChain(IF IsModelReady(model) /\ isActive THEN LoopCleanup(Chain)
              ELSE Chain)
  /\ UNCHANGED <<propVars, geomVars, hasStream, cameraError, isRecording, progress,
                 detectionState, moveInstruction, capturedFrames, camPromise,
                 elapsed, lastPhase, frames, isActive, model, isLoading, error,
                 faceData, loadPromise, histVars>>

\* The parent stops rendering the component.
Unmount == UnmountView /\ UNCHANGED <<flowVars, storeVars>>

\* --------------------------------------------------------------- detector

\* loadModel: tf.ready() and blazeface.load() resolve.
ModelLoaded ==
  /\ loadPromise = "pending"
  /\ loadPromise' = "resolved"
  /\ IF isMounted
     THEN /\ isLoading' = FALSE
          /\ AfterRender(hasStream, cameraError, detectionState, "loaded",
                         faceData, Chain, CanRun)
     ELSE NoRender /\ UNCHANGED <<isLoading, chainVars>>
  /\ UNCHANGED <<propVars, geomVars, flowVars, storeVars, mounted, isRecording, progress, moveInstruction,
                 capturedFrames, camVars, videoReady, recVars, error,
                 isMounted, onCaptureCalls, delivered, notified, phasesSeen,
                 onSchedule, samplesOk, lateObservation,
                 passThrew>>

\* ModelLoadFailed with a fault: the catch block records the error and
\* calls loadModel again.
ModelLoadFailed_Retry ==
  /\ loadPromise = "pending"
  /\ loadPromise' = "pending"
  /\ IF isMounted
     THEN error' = TRUE /\ isLoading' = FALSE
     ELSE UNCHANGED <<error, isLoading>>
  /\ NoRender
  /\ UNCHANGED <<propVars, geomVars, flowVars, storeVars, mounted, isRecording, progress,
                 moveInstruction, capturedFrames, camVars, videoReady,
                 recVars, isMounted, chainVars, histVars>>

\* loadModel: the catch block.
ModelLoadFailed ==
  /\ loadPromise = "pending"
  /\ loadPromise' = "rejected"
  /\ IF isMounted
     THEN error' = TRUE /\ isLoading' = FALSE
     ELSE UNCHANGED <<error, isLoading>>
  /\ NoRender
  /\ UNCHANGED <<propVars, geomVars, flowVars, storeVars, mounted, isRecording, progress, moveInstruction,
                 capturedFrames, camVars, videoReady, recVars,
                 isMounted, chainVars, onCaptureCalls, delivered, notified,
                 phasesSeen, onSchedule, samplesOk, lateObservation,
                 passThrew>>

\* What model.estimateFaces can lead to: no prediction, a first prediction
\* that checkFaceCentered rejects or accepts, or an exception.
Outcomes == {"none", "offCenter", "centered", "throw"}

\* Observation with a fault: the no-prediction branch resets detected but
\* keeps the centered flag published before.
Observation_KeepsCentered(outcome) ==
  [detected |-> outcome # "none",
   centered |-> IF outcome = "none" THEN faceData.centered
                ELSE outcome = "centered"]

\* The object detectFace passes to setFaceData.
Observation(outcome) ==
  [detected |-> outcome # "none", centered |-> outcome = "centered"]

\* AfterDetectFace with a fault: detectFace has no catch block, so an
\* exception of estimateFaces ends runDetection before it requests a frame.
AfterDetectFace_ThrowEscapes(c, outcome) ==
  IF outcome = "throw" THEN c ELSE RequestFrame(c)

\* runDetection after await detectFace(): detectFace catches what
\* estimateFaces throws, so the next frame is requested whatever the
\* outcome of the pass.
AfterDetectFace(c, outcome) == RequestFrame(c)

\* detectFace resumes after await model.estimateFaces (for a pass started
\* under the current loop effect, or under one cleaned up since), then
\* runDetection resumes and requests the next animation frame.
EstimateResolved(stalePass, outcome) ==
  /\ IF stalePass THEN inflightStale > 0 ELSE inflight > 0
  /\ LET c == IF stalePass
              THEN [Chain EXCEPT !.stale = @ - 1]
              ELSE [Chain EXCEPT !.fresh = @ - 1]
         fd1 == IF outcome = "throw" THEN faceData ELSE Observation(outcome)
     IN IF mounted
        THEN AfterRender(hasStream, cameraError, detectionState, model, fd1,
                         AfterDetectFace(c, outcome), CanRun)
        ELSE NoRender /\ SetChain(AfterDetectFace(c, outcome))
  /\ lateObservation' = (lateObservation \/ (stalePass /\ outcome # "throw"))
  /\ passThrew' = (outcome = "throw")
  /\ UNCHANGED <<propVars, geomVars, flowVars, storeVars, mounted, isRecording, progress, moveInstruction,
                 capturedFrames, camVars, videoReady, recVars, isLoading, error,
                 loadPromise, isMounted, onCaptureCalls, delivered, notified,
                 phasesSeen, onSchedule, samplesOk>>

\* An animation-frame callback runs runDetection: the frame animationRef
\* refers to, or an earlier one still pending.
AnimationFrame(orphan) ==
  /\ IF orphan THEN rafOrphans > 0 ELSE rafPending
  /\ LET c == IF orphan
              THEN [Chain EXCEPT !.orphans = @ - 1]
              ELSE [Chain EXCEPT !.raf = FALSE]
     IN SetChain(RunDetection(c, CanRun))
  /\ UNCHANGED <<propVars, geomVars, flowVars, storeVars, viewVars, camVars, videoReady, detectTimeout,
                 recVars, hookVars, histVars>>

\* ------------------------------------------------------------------ time

\* tickMs milliseconds pass while a settle timer is pending.
AdvanceTime ==
  /\ detectTimeout > 0
  /\ detectTimeout' = detectTimeout - tickMs
  /\ sinceDetected' = IF detectionState = "detected"
                      THEN Min(sinceDetected + tickMs, settleMs + tickMs)
                      ELSE sinceDetected
  /\ UNCHANGED <<propVars, geomVars, flowVars, storeVars, viewVars, camVars, videoReady, recVars, hookVars,
                 chainVars, onCaptureCalls, delivered, notified, phasesSeen,
                 onSchedule, samplesOk, lateObservation,
                 passThrew>>

\* RecordingAfterDone with a fault: the completing tick leaves isRecording
\* set.
RecordingAfterDone_StillOn == TRUE

\* The argument of setIsRecording in the completing tick.
RecordingAfterDone == FALSE

\* The recording effect's body after a render that changed isRecording,
\* onCapture or onFrameCapture: a fresh closure, and a fresh interval when
\* recording.
RecordingEffect(rec1) ==
  /\ lastPhase' = -1
  /\ frames' = <<>>
  /\ elapsed' = 0
  /\ interval' = (rec1 /\ isVideo)
  /\ liveIntervals' = ClearInterval(liveIntervals)
                      + (IF rec1 /\ isVideo THEN 1 ELSE 0)

\* SettledState with a fault: the settle timer's callback sets isRecording
\* but leaves detectionState as it is.
SettledState_Detected == "detected"

\* The argument of setDetectionState in the settle timer's callback.
SettledState == "recording"

\* The settle timer's callback.
SettleTimerFired ==
  /\ detectTimeout = 0
  /\ isRecording' = TRUE
  /\ AfterRender(hasStream, cameraError, SettledState, model, faceData, Chain,
                 CanRun)
  /\ RecordingEffect(TRUE)
  /\ notified' = <<>>
  /\ phasesSeen' = {}
  /\ onSchedule' = TRUE
  /\ samplesOk' = TRUE
  /\ UNCHANGED <<propVars, geomVars, flowVars, storeVars, mounted, progress, moveInstruction, capturedFrames,
                 camVars, videoReady, isLoading, error, loadPromise, isMounted,
                 onCaptureCalls, delivered, lateObservation,
                 passThrew>>

\* ------------------------------------------------------------- recording

\* The setInterval callback of the recording effect, run one period after
\* the previous one (or after the interval was set), or late more periods.
RecordingTick(late) ==
  /\ interval
  /\ LET now == elapsed + tickMs * (1 + late)
         p == CurrentProgress(now)
         ph == CurrentPhase(p)
         hasEl == VideoRefCurrent(mounted, cameraError)
         changed == PhaseChanged(ph, lastPhase) /\ hasEl
         frame == captureFrameFromVideo(hasEl, videoReady, ph)
         got == changed /\ frame # NullFrame
         frames1 == IF got THEN Append(frames, frame) ELSE frames
     IN /\ progress' = p
        /\ moveInstruction' = ph
        /\ notified' = IF got /\ onFrameCapture THEN Append(notified, frame)
                       ELSE notified
        /\ phasesSeen' = phasesSeen \cup {ph}
        /\ samplesOk' = (samplesOk /\ ~(changed /\ frame = NullFrame))
        /\ onSchedule' = (onSchedule /\ late = 0)
        /\ IF ProgressDone(p)
           THEN \* clearInterval, setIsRecording(false), setCapturedFrames,
                \* onCapture(frames); the parent's handler re-renders it
                /\ isRecording' = RecordingAfterDone
                /\ capturedFrames' = frames1
                /\ delivered' = frames1
                /\ onCaptureCalls' = onCaptureCalls + 1
                /\ RecordingEffect(RecordingAfterDone)
           ELSE /\ lastPhase' = IF changed THEN ph ELSE lastPhase
                /\ frames' = frames1
                /\ elapsed' = now
                /\ UNCHANGED <<isRecording, capturedFrames, delivered,
                               onCaptureCalls, interval, liveIntervals>>
  /\ NoRender
  /\ UNCHANGED <<propVars, geomVars, flowVars, storeVars, mounted, camVars, videoReady, isLoading, error,
                 loadPromise, isMounted, chainVars, lateObservation,
                 passThrew>>

\* The parent re-renders (toggleTheme, setPhotoTaken, ...): onCapture is a
\* new function, so the recording effect is cleaned up and runs again.
ParentRerender ==
  /\ mounted
  /\ RecordingEffect(isRecording)
  /\ IF isRecording /\ isVideo
     THEN /\ notified' = <<>>
          /\ phasesSeen' = {}
          /\ onSchedule' = TRUE
          /\ samplesOk' = TRUE
     ELSE UNCHANGED <<notified, phasesSeen, onSchedule, samplesOk>>
  /\ UNCHANGED <<propVars, geomVars, flowVars, storeVars, viewVars, camVars, videoReady, detectTimeout,
                 hookVars, chainVars, onCaptureCalls, delivered, sinceDetected,
                 lateObservation,
                 passThrew>>

\* handlePhotoCapture(frame): saveTexturePhoto if (currentPersona && frame),
\* then setPhotoTaken(true) and setTimeout(() => nextStep(), 800).
handlePhotoCapture(frame) ==
  /\ texturePhoto' = (texturePhoto \/ (currentPersona /\ frame # NullFrame))
  /\ photoTaken' = TRUE
  /\ nextStepTimers' = nextStepTimers + 1
  /\ UNCHANGED <<step, videoTaken, currentPersona>>

\* onCapture(frame) of a photo-mode component: the prop IdentityVerificationApp
\* passes in step 1; a callback the model does not follow otherwise.
OnPhotoCapture(frame) ==
  IF caller = "IdentityVerificationApp" THEN handlePhotoCapture(frame)
  ELSE UNCHANGED flowVars

\* handleManualCapture (the capture button; disabled while neither
\* hasStream nor cameraError), and the parent's re-render after onCapture.
ManualCapture ==
  /\ mounted /\ ~isVideo
  /\ hasStream \/ cameraError
  /\ onCaptureCalls < MaxCaptures
  /\ nextStepTimers < MaxCaptures
  /\ LET frame == captureFrameFromVideo(VideoRefCurrent(mounted, cameraError),
                                        videoReady, 0)
     IN /\ notified' = IF onFrameCapture /\ frame # NullFrame
                       THEN Append(notified, frame) ELSE notified
        /\ delivered' = <<frame>>
        /\ OnPhotoCapture(frame)
  /\ onCaptureCalls' = onCaptureCalls + 1
  /\ RecordingEffect(isRecording)
  /\ trackStops' = StopsByCapture(trackStops)
  /\ UNCHANGED <<propVars, geomVars, storeVars, viewVars, camPromise, stream, videoReady,
                 detectTimeout,
                 hookVars, chainVars, phasesSeen, onSchedule, samplesOk,
                 sinceDetected, lateObservation,
                 passThrew>>

\* ------------------------------------------------------------------- Next

Next ==
  \/ CameraGranted
  \/ CameraDenied
  \/ VideoReadyChange
  \/ Unmount
  \/ ModelLoaded
  \/ ModelLoadFailed
  \/ \E s \in BOOLEAN, o \in Outcomes : EstimateResolved(s, o)
  \/ \E orphan \in BOOLEAN : AnimationFrame(orphan)
  \/ AdvanceTime
  \/ SettleTimerFired
  \/ \E late \in 0..MaxLate : RecordingTick(late)
  \/ ParentRerender
  \/ ManualCapture

Spec == Init /\ [][Next]_vars

\* ------------------------------------------- recording under late ticks

\* How many delay units late the host may run a recording tick.
MaxDelays == 2

\* A delay unit in interval periods: just over one motion phase.
DelayUnit == phaseDuration \div tickMs + 1

\* The lateness of a tick, in interval periods.
Delays == {k * DelayUnit : k \in 0 .. MaxDelays}

\* A user who holds the face centered before a working camera, and a host
\* that runs the recording ticks on time or late by whole delay units.
NextDelayed ==
  \/ CameraGranted
  \/ VideoReadyChange
  \/ ModelLoaded
  \/ EstimateResolved(FALSE, "centered")
  \/ AnimationFrame(FALSE)
  \/ AdvanceTime
  \/ SettleTimerFired
  \/ \E late \in Delays : RecordingTick(late)
  \/ ParentRerender

SpecDelayed == Init /\ [][NextDelayed]_vars

\* -------------------------------------------- the capture flow controller

\* No CameraView is rendered: no promise of the component or of its hook
\* exists. (useState(0), useState(false), useState(false), useState(null)
\* of IdentityVerificationApp are NoFlow; its step 0 renders no CameraView.)
NoCameraView ==
  /\ NoCheck
  /\ isVideo = FALSE
  /\ autoStart = FALSE
  /\ onFrameCapture = FALSE
  /\ mounted = FALSE
  /\ hasStream = FALSE
  /\ cameraError = FALSE
  /\ isRecording = FALSE
  /\ progress = 0
  /\ detectionState = "idle"
  /\ moveInstruction = 0
  /\ capturedFrames = <<>>
  /\ camPromise = "none"
  /\ stream = "none"
  /\ trackStops = 0
  /\ videoReady = FALSE
  /\ detectTimeout = -1
  /\ interval = FALSE
  /\ liveIntervals = 0
  /\ elapsed = 0
  /\ lastPhase = -1
  /\ frames = <<>>
  /\ isActive = FALSE
  /\ model = "null"
  /\ isLoading = TRUE
  /\ error = FALSE
  /\ faceData = noFace
  /\ loadPromise = "none"
  /\ isMounted = FALSE
  /\ isRunningRef = FALSE
  /\ animationRef = FALSE
  /\ rafPending = FALSE
  /\ rafOrphans = 0
  /\ inflight = 0
  /\ inflightStale = 0
  /\ onCaptureCalls = 0
  /\ delivered = <<>>
  /\ notified = <<>>
  /\ phasesSeen = {}
  /\ onSchedule = TRUE
  /\ samplesOk = TRUE
  /\ sinceDetected = 0
  /\ lateObservation = FALSE
  /\ passThrew = FALSE

InitFlow ==
  /\ caller = "IdentityVerificationApp"
  /\ NoFlow
  /\ NoStore
  /\ NoCameraView

\* The first render of a new CameraView instance with the props isVideo =
\* iv, autoStart = as, and its mount effects: startCamera() and the hook's
\* loadModel(). What an earlier instance left pending acts on that instance
\* only and is followed no longer.
MountCameraView(iv, as) ==
  /\ isVideo' = iv
  /\ autoStart' = as
  /\ mounted' = TRUE
  /\ hasStream' = FALSE
  /\ cameraError' = FALSE
  /\ isRecording' = FALSE
  /\ progress' = 0
  /\ detectionState' = IF as THEN "initializing" ELSE "idle"
  /\ moveInstruction' = 0
  /\ capturedFrames' = <<>>
  /\ camPromise' = "pending"
  /\ stream' = "none"
  /\ trackStops' = 0
  /\ videoReady' = FALSE
  /\ detectTimeout' = -1
  /\ interval' = FALSE
  /\ liveIntervals' = 0
  /\ elapsed' = 0
  /\ lastPhase' = -1
  /\ frames' = <<>>
  /\ isActive' = FALSE
  /\ model' = "null"
  /\ isLoading' = TRUE
  /\ error' = FALSE
  /\ faceData' = noFace
  /\ loadPromise' = "pending"
  /\ isMounted' = TRUE
  /\ isRunningRef' = FALSE
  /\ animationRef' = FALSE
  /\ rafPending' = FALSE
  /\ rafOrphans' = 0
  /\ inflight' = 0
  /\ inflightStale' = 0
  /\ onCaptureCalls' = 0
  /\ delivered' = <<>>
  /\ notified' = <<>>
  /\ phasesSeen' = {}
  /\ onSchedule' = TRUE
  /\ samplesOk' = TRUE
  /\ sinceDetected' = 0
  /\ lateObservation' = FALSE
  /\ passThrew' = FALSE
  /\ UNCHANGED <<caller, onFrameCapture, geomVars>>

\* A render of the CameraView instance that is mounted already, with the
\* props isVideo = iv, autoStart = as: renderStep() returns a div with a
\* CameraView as its second child in step 1 and in step 2, none with a key,
\* so React keeps the instance and its state; useState's initial value is
\* not evaluated again. The effects whose dependencies changed run again:
\* the auto-detection effect sets nothing in "idle", the recording effect
\* starts a fresh closure, the detection loop effect follows isActive.
RerenderCameraView(iv, as) ==
  LET a1 == IsActiveArgWith(iv, hasStream, cameraError, detectionState)
  IN /\ isVideo' = iv
     /\ autoStart' = as
     /\ isActive' = a1
     /\ SetChain(LoopEffect(Chain, IsModelReady(model), isActive,
                            IsModelReady(model), a1, CanRun))
     /\ RecordingEffect(isRecording)
     /\ UNCHANGED <<caller, onFrameCapture, geomVars, viewVars, camVars,
                    videoReady, detectTimeout, model, isLoading, error,
                    faceData, loadPromise, isMounted, histVars>>

\* What renderStep() returns for step s1 after it returned the tree of
\* step s0: case 1 and case 2 contain a CameraView, the other cases none.
RenderStep(s0, s1) ==
  LET had == s0 \in {1, 2}
      has == s1 \in {1, 2}
  IN IF has /\ ~had THEN MountCameraView(s1 = 2, s1 = 2)
     ELSE IF has /\ had THEN RerenderCameraView(s1 = 2, s1 = 2)
     ELSE IF had /\ mounted THEN UnmountView
     ELSE UNCHANGED <<propVars, geomVars, viewVars, camVars, videoReady,
                      detectTimeout, recVars, hookVars, chainVars, histVars>>

\* handleStartCapture (the "Initialize Capture" button of step 0):
\* personaStorage.create(), setCurrentPersona(persona), nextStep().
StartCapture ==
  /\ step = 0
  /\ currentPersona' = TRUE
  /\ texturePhoto' = FALSE
  /\ step' = step + 1
  /\ RenderStep(step, step + 1)
  /\ UNCHANGED <<storeVars, photoTaken, videoTaken, nextStepTimers>>

\* The callback of a setTimeout(() => nextStep(), ...): setStep(s => s + 1).
NextStepTimerFired ==
  /\ nextStepTimers > 0
  /\ nextStepTimers' = nextStepTimers - 1
  /\ step' = step + 1
  /\ RenderStep(step, step + 1)
  /\ UNCHANGED <<storeVars, photoTaken, videoTaken, currentPersona, texturePhoto>>

\* ValidationLoader's interval observes elapsed >= 9000 and calls
\* onComplete, handleValidationComplete: markComplete and nextStep(). The
\* nextStep timers were all set in step 1 with 800 ms, so none is left
\* pending 9000 ms after step 3 was entered.
ValidationComplete ==
  /\ step = 3
  /\ nextStepTimers = 0
  /\ step' = step + 1
  /\ RenderStep(step, step + 1)
  /\ UNCHANGED <<storeVars, photoTaken, videoTaken, currentPersona, texturePhoto,
                 nextStepTimers>>

\* restart (the button of step 4).
Restart ==
  /\ step = 4
  /\ step' = 0
  /\ photoTaken' = FALSE
  /\ videoTaken' = FALSE
  /\ currentPersona' = FALSE
  /\ RenderStep(step, 0)
  /\ UNCHANGED <<storeVars, texturePhoto, nextStepTimers>>

\* The tasks of the app. The settle timer, the recording ticks and the
\* passing of time towards them are left out: FlowViewIdle shows that no
\* CameraView of the app leaves "idle", so none of them is ever pending.
NextFlow ==
  \/ StartCapture
  \/ NextStepTimerFired
  \/ ValidationComplete
  \/ Restart
  \/ CameraGranted
  \/ CameraDenied
  \/ VideoReadyChange
  \/ ModelLoaded
  \/ ModelLoadFailed
  \/ \E s \in BOOLEAN, o \in Outcomes : EstimateResolved(s, o)
  \/ \E orphan \in BOOLEAN : AnimationFrame(orphan)
  \/ ParentRerender
  \/ ManualCapture

SpecFlow == InitFlow /\ [][NextFlow]_vars

\* ------------------------------------------------- the detector on its own

\* How many polling chains (detection passes in flight and animation frames
\* pending) the host lets accumulate before it stops re-activating.
MaxChains == 2

\* The detection passes in flight and the animation frames pending.
PendingCallbacks ==
  inflight + inflightStale + rafOrphans + (IF rafPending THEN 1 ELSE 0)

\* A host other than CameraView: it shows a playing camera video, keeps no
\* detection phase and passes useFaceDetection an isActive of its own.
HostIdle ==
  /\ caller = "host"
  /\ NoFlow
  /\ NoStore
  /\ isVideo = FALSE
  /\ autoStart = FALSE
  /\ onFrameCapture = FALSE
  /\ mounted = TRUE
  /\ hasStream = TRUE
  /\ cameraError = FALSE
  /\ isRecording = FALSE
  /\ progress = 0
  /\ detectionState = "idle"
  /\ moveInstruction = 0
  /\ capturedFrames = <<>>
  /\ camPromise = "resolved"
  /\ stream = "live"
  /\ trackStops = 0
  /\ detectTimeout = -1
  /\ InitHookAndRecorder

InitHook ==
  /\ HostIdle
  /\ NoCheck
  /\ videoReady \in BOOLEAN
  /\ isActive \in BOOLEAN

\* The host renders again with another isActive: the detection loop effect
\* is cleaned up and runs again.
SetActive(b) ==
  /\ caller = "host" /\ mounted
  /\ b # isActive
  /\ b => PendingCallbacks < MaxChains
  /\ isActive' = b
  /\ SetChain(LoopEffect(Chain, IsModelReady(model), isActive,
                         IsModelReady(model), b, CanRun))
  /\ UNCHANGED <<propVars, geomVars, flowVars, storeVars, viewVars, camVars, videoReady,
                 detectTimeout, recVars, model, isLoading, error, faceData,
                 loadPromise, isMounted, histVars>>

NextHook ==
  \/ \E b \in BOOLEAN : SetActive(b)
  \/ VideoReadyChange
  \/ Unmount
  \/ ModelLoaded
  \/ ModelLoadFailed
  \/ \E s \in BOOLEAN, o \in Outcomes : EstimateResolved(s, o)
  \/ \E orphan \in BOOLEAN : AnimationFrame(orphan)

SpecHook == InitHook /\ [][NextHook]_vars

\* ------------------------------------------- checkFaceCentered on its own

\* The longer side of the frames checkFaceCentered is called with.
MaxSide == 20

\* video.videoWidth and video.videoHeight
Sides == {MaxSide \div 2, MaxSide}

\* The boxes with integer corners inside a frame.
Boxes(vw, vh) ==
  {Box(x1, y1, x2, y2) : x1 \in 0 .. vw, y1 \in 0 .. vh,
                         x2 \in 0 .. vw, y2 \in 0 .. vh}

\* detectFace is about to call checkFaceCentered for a prediction.
InitCentered ==
  /\ HostIdle
  /\ videoReady = TRUE
  /\ isActive = TRUE
  /\ videoWidth \in Sides
  /\ videoHeight \in Sides
  /\ face \in {f \in Boxes(videoWidth, videoHeight) :
                 f[1][1] < f[2][1] /\ f[1][2] < f[2][2]} \cup {<<>>}
  /\ checkResult = <<>>

\* const isCentered = checkFaceCentered(face, videoWidth, videoHeight)
CheckFace ==
  /\ videoWidth > 0 /\ checkResult = <<>>
  /\ checkResult' = <<checkFaceCentered(face, videoWidth, videoHeight)>>
  /\ UNCHANGED <<propVars, flowVars, storeVars, face, videoWidth, videoHeight, viewVars, camVars,
                 videoReady, detectTimeout, recVars, hookVars, chainVars,
                 histVars>>

NextCentered == CheckFace

SpecCentered == InitCentered /\ [][NextCentered]_vars

\* ---------------------------------------------- personaStorage on its own

\* How many personas the list holds at most.
MaxPersonas == 2
\* The last millisecond Date.now() reaches.
MaxNow == 2
\* How many volumetric frames a persona holds at most, and how many
\* different images there are.
MaxFrames == 2

\* The images of the volumetric frames, and the image of the photo.
Images == 1 .. MaxFrames
Photo == 0
Ids == 1 .. MaxNow

\* The sequences over S of length 1..n.
RECURSIVE SeqsUpTo(_, _)
SeqsUpTo(S, n) ==
  IF n = 0 THEN {}
  ELSE {<<x>> : x \in S} \cup SeqsUpTo(S, n - 1)
       \cup {Append(q, x) : q \in SeqsUpTo(S, n - 1), x \in S}

\* The object create() builds for an id (name and createdAt, which no
\* method reads, are left out).
NewPersona(id) ==
  [id |-> id, texturePhoto |-> NullFrame, volumetricFrames |-> <<>>,
   metadata |-> [captureComplete |-> FALSE, photoTaken |-> FALSE,
                 videoTaken |-> FALSE]]

\* JSON.stringify(personas): the list as text, here one tuple of values per
\* persona.
Stringify(personas) ==
  [i \in 1 .. Len(personas) |->
     <<personas[i].id, personas[i].texturePhoto, personas[i].volumetricFrames,
       <<personas[i].metadata.captureComplete, personas[i].metadata.photoTaken,
         personas[i].metadata.videoTaken>>>>]

\* JSON.parse(data)
Parse(data) ==
  [i \in 1 .. Len(data) |->
     [id |-> data[i][1], texturePhoto |-> data[i][2],
      volumetricFrames |-> data[i][3],
      metadata |-> [captureComplete |-> data[i][4][1],
                    photoTaken |-> data[i][4][2],
                    videoTaken |-> data[i][4][3]]]]

\* getAll() on a storage item: data ? JSON.parse(data) : []
GetAllOf(item) == IF item = <<>> THEN <<>> ELSE Parse(item[1])

\* getAll()
GetAll == GetAllOf(localStorage)

\* personas.findIndex(p => p.id === id)
FindIndex(personas, id) ==
  IF \E i \in 1 .. Len(personas) : personas[i].id = id
  THEN CHOOSE i \in 1 .. Len(personas) :
         /\ personas[i].id = id
         /\ \A j \in 1 .. i - 1 : personas[j].id # id
  ELSE -1

\* getById(id) on a list: personas.find(p => p.id === id) || null, as a
\* sequence of at most one persona.
GetByIdIn(personas, id) ==
  IF FindIndex(personas, id) = -1 THEN <<>>
  ELSE <<personas[FindIndex(personas, id)]>>

\* getById(id)
GetById(id) == GetByIdIn(GetAll, id)

\* { ...persona, ...updates }
Merge(persona, updates) ==
  [f \in DOMAIN persona |->
     IF f \in DOMAIN updates THEN updates[f] ELSE persona[f]]

\* saveAll(personas): setItem, or a caught exception (quota exceeded) that
\* leaves the item as it was.
SaveAll(personas, ok) ==
  localStorage' = IF ok THEN <<Stringify(personas)>> ELSE localStorage

\* update(id, updates)
Update(id, updates, ok) ==
  LET personas == GetAll
      index == FindIndex(personas, id)
  IN IF index = -1
     THEN /\ returned' = <<>>
          /\ UNCHANGED localStorage
     ELSE LET updated == [personas EXCEPT ![index] = Merge(@, updates)]
          IN /\ SaveAll(updated, ok)
             /\ returned' = <<updated[index]>>

\* Everything but the store.
appVars == <<propVars, geomVars, flowVars, viewVars, camVars, videoReady,
             detectTimeout, recVars, hookVars, chainVars, histVars>>

\* create(): id is `persona_${Date.now()}`.
Create(ok) ==
  /\ Len(GetAll) < MaxPersonas
  /\ called' = [op |-> "create", id |-> dateNow, arg |-> <<>>]
  /\ SaveAll(Append(GetAll, NewPersona(dateNow)), ok)
  /\ returned' = <<NewPersona(dateNow)>>
  /\ UNCHANGED <<dateNow, appVars>>

\* saveTexturePhoto(id, base64Image)
SaveTexturePhoto(id, image, ok) ==
  /\ called' = [op |-> "saveTexturePhoto", id |-> id, arg |-> <<image>>]
  /\ Update(id,
            [texturePhoto |-> image,
             metadata |->
               IF GetById(id) = <<>>
               THEN [photoTaken |-> TRUE]
               ELSE [GetById(id)[1].metadata EXCEPT !.photoTaken = TRUE]],
            ok)
  /\ UNCHANGED <<dateNow, appVars>>

\* addVolumetricFrame(id, base64Image) on the item a call finds, as the
\* item it leaves.
AddFrameTo(item, id, image, ok) ==
  LET personas == GetAllOf(item)
      index == FindIndex(personas, id)
  IN IF index = -1 \/ ~ok THEN item
     ELSE <<Stringify([personas EXCEPT ![index] =
                         Merge(@, [volumetricFrames |->
                                     Append(@.volumetricFrames, image)])])>>

\* addVolumetricFrame(id, base64Image)
AddVolumetricFrame(id, image, ok) ==
  /\ GetById(id) # <<>> => Len(GetById(id)[1].volumetricFrames) < MaxFrames
  /\ called' = [op |-> "addVolumetricFrame", id |-> id, arg |-> <<image>>]
  /\ IF GetById(id) = <<>>
     THEN returned' = <<>> /\ UNCHANGED localStorage
     ELSE Update(id,
                 [volumetricFrames |->
                    Append(GetById(id)[1].volumetricFrames, image)],
                 ok)
  /\ UNCHANGED <<dateNow, appVars>>

\* frames.forEach(frame => addVolumetricFrame(id, frame)), frames being
\* captured: the item left
\* after the calls for captured[k..], oks[k] telling whether the k-th write
\* succeeds.
RECURSIVE AddFrames(_, _, _, _, _)
AddFrames(item, id, captured, oks, k) ==
  IF k > Len(captured) THEN item
  ELSE AddFrames(AddFrameTo(item, id, captured[k], oks[k]), id, captured, oks,
                 k + 1)

\* handleVideoCapture(captured) with currentPersona.id = id: the store's part.
HandleVideoCapture(id, captured, oks) ==
  /\ GetById(id) # <<>> =>
       Len(GetById(id)[1].volumetricFrames) + Len(captured) <= MaxFrames
  /\ called' = [op |-> "handleVideoCapture", id |-> id, arg |-> captured]
  /\ localStorage' = AddFrames(localStorage, id, captured, oks, 1)
  /\ returned' = <<>>
  /\ UNCHANGED <<dateNow, appVars>>

\* markComplete(id)
MarkComplete(id, ok) ==
  /\ called' = [op |-> "markComplete", id |-> id, arg |-> <<>>]
  /\ IF GetById(id) = <<>>
     THEN returned' = <<>> /\ UNCHANGED localStorage
     ELSE Update(id,
                 [metadata |-> [GetById(id)[1].metadata EXCEPT
                                  !.videoTaken = TRUE,
                                  !.captureComplete = TRUE]],
                 ok)
  /\ UNCHANGED <<dateNow, appVars>>

\* delete(id)
Delete(id, ok) ==
  /\ called' = [op |-> "delete", id |-> id, arg |-> <<>>]
  /\ SaveAll(SelectSeq(GetAll, LAMBDA p : p.id # id), ok)
  /\ returned' = <<>>
  /\ UNCHANGED <<dateNow, appVars>>

\* clearAll()
ClearAll ==
  /\ called' = [op |-> "clearAll", id |-> 0, arg |-> <<>>]
  /\ localStorage' = <<>>
  /\ returned' = <<>>
  /\ UNCHANGED <<dateNow, appVars>>

\* getActive()
GetActive ==
  /\ called' = [op |-> "getActive", id |-> 0, arg |-> <<>>]
  /\ returned' =
       LET personas == GetAll
           incomplete == SelectSeq(personas,
                                   LAMBDA p : ~p.metadata.captureComplete)
       IN IF incomplete # <<>> THEN <<incomplete[1]>>
          ELSE IF personas # <<>> THEN <<personas[Len(personas)]>>
          ELSE <<>>
  /\ UNCHANGED <<localStorage, dateNow, appVars>>

\* A millisecond passes.
ClockTick ==
  /\ dateNow < MaxNow
  /\ dateNow' = dateNow + 1
  /\ called' = [op |-> "none", id |-> 0, arg |-> <<>>]
  /\ returned' = <<>>
  /\ UNCHANGED <<localStorage, appVars>>

InitStore ==
  /\ caller = "personaStorage"
  /\ NoFlow
  /\ NoStore
  /\ NoCameraView

NextStore ==
  \/ \E ok \in BOOLEAN : Create(ok)
  \/ \E id \in Ids, ok \in BOOLEAN : SaveTexturePhoto(id, Photo, ok)
  \/ \E id \in Ids, image \in Images, ok \in BOOLEAN :
       AddVolumetricFrame(id, image, ok)
  \/ \E id \in Ids, captured \in SeqsUpTo(Images, MaxFrames) :
       \E oks \in [1 .. Len(captured) -> BOOLEAN] :
         HandleVideoCapture(id, captured, oks)
  \/ \E id \in Ids, ok \in BOOLEAN : MarkComplete(id, ok)
  \/ \E id \in Ids, ok \in BOOLEAN : Delete(id, ok)
  \/ ClearAll
  \/ GetActive
  \/ ClockTick

SpecStore == InitStore /\ [][NextStore]_vars

\* ================================================================= claims

Phases == 0 .. (totalPhases - 1)

\* The frames of phases 0..4, one each, in order.
OnePerPhase == [i \in 1 .. totalPhases |-> i - 1]

\* A video-mode session has completed: onCapture was invoked.
SessionComplete == isVideo /\ onCaptureCalls > 0

\* C1: a video-mode session whose ticks all ran on schedule (every 50 ms up
\* to 12500 ms) and whose samples all succeeded delivers exactly five
\* frames, one per phase 0..4 in increasing order, through exactly one
\* onCapture call, made on the tick where progress is 100.
C1_ScriptedSessionFiveFrames ==
  (SessionComplete /\ onSchedule /\ samplesOk) =>
    /\ delivered = OnePerPhase
    /\ onCaptureCalls = 1
    /\ progress = 100 * totalDuration

\* C2: while a session runs with every sample succeeding, the frames
\* captured so far are as many as the distinct phase indices the tick
\* handler has seen, every such index is in 0..4 and no index has two
\* frames; at completion there is exactly one frame per motion phase.
C2_OneFramePerPhaseSeen ==
  (isVideo /\ samplesOk) =>
    /\ phasesSeen \subseteq Phases
    /\ interval =>
         /\ Len(frames) = Cardinality(phasesSeen)
         /\ \A i, j \in 1 .. Len(frames) : frames[i] = frames[j] => i = j
    /\ (SessionComplete /\ onSchedule) => delivered = OnePerPhase

\* C3: the phase index the tick handler publishes as moveInstruction is
\* clamped to 0..4 on every tick, also when progress is 100.
C3_PhaseIndexClamped == moveInstruction \in Phases

\* C4: a recording tick (not the completing one) at a phase change where
\* the sampler returns null leaves lastPhase, the frame list and the
\* observer's notifications as they were, so that the capture is retried.
C4_NullSampleDoesNotAdvance ==
  [][(/\ interval /\ interval' /\ elapsed' > elapsed
      /\ CurrentPhase(CurrentProgress(elapsed')) # lastPhase
      /\ captureFrameFromVideo(VideoRefCurrent(mounted, cameraError),
                               videoReady, 0) = NullFrame)
     => (lastPhase' = lastPhase /\ frames' = frames /\ notified' = notified)]_vars

\* C5: the coordinator stays in `detected` for a fixed 1000 ms, whatever
\* observations arrive meanwhile: it is never still in `detected` more
\* than 1000 ms after it entered, and it enters `recording` exactly
\* 1000 ms after it entered `detected`.
C5_FixedSettleDelay ==
  /\ detectionState = "detected" => sinceDetected <= settleMs
  /\ detectionState = "recording" => sinceDetected = settleMs

\* C6: `scanning` is left only for `detected`, and only by the step that
\* publishes an observation with detected and centered both true; no
\* state rests in `scanning` with such an observation (the transition is
\* immediate); and once in `detected`, no later observation takes the
\* coordinator back.
C6_ScanningToDetected ==
  /\ [](detectionState = "scanning" => ~(faceData.detected /\ faceData.centered))
  /\ [][(detectionState = "scanning" /\ detectionState' # "scanning")
        => (/\ detectionState' = "detected"
            /\ faceData'.detected /\ faceData'.centered
            /\ ~(faceData.detected /\ faceData.centered))]_vars
  /\ [][detectionState = "detected"
        => detectionState' \in {"detected", "recording"}]_vars

\* C6 witness: the coordinator is in `detected` and the latest observation
\* has lost centering.
C6_Witness == detectionState = "detected" /\ ~faceData.centered

PastInitializing == detectionState \in {"scanning", "detected", "recording"}

\* C7 as stated: a mounted coordinator is in `scanning`, `detected` or
\* `recording` only with a live camera stream and a loaded model.
C7_LiveStreamAndModel ==
  (mounted /\ PastInitializing) => (stream = "live" /\ IsModelReady(model))

\* C7 amended: `initializing` is left only for `scanning` and only when
\* hasStream (set by a live stream, or by the fallback after a failed
\* acquisition) and model-ready both hold, and it is left as soon as they
\* do; `scanning`, `detected` and `recording` imply hasStream and a loaded
\* model; a mounted coordinator in `detected` or `recording` has acquired
\* a camera stream and not stopped it.
C7_InitializingToScanning ==
  /\ [](PastInitializing => (hasStream /\ IsModelReady(model)))
  /\ []((isVideo /\ autoStart /\ detectionState = "initializing")
        => ~(hasStream /\ IsModelReady(model)))
  /\ []((mounted /\ detectionState \in {"detected", "recording"})
        => (stream = "live" /\ ~cameraError))
  /\ [][(detectionState = "initializing" /\ detectionState' # "initializing")
        => (/\ detectionState' = "scanning"
            /\ hasStream' /\ IsModelReady(model'))]_vars

\* C7 witness: `scanning` reached in degraded mode, without a camera stream.
C7_Witness ==
  /\ detectionState = "scanning" /\ hasStream /\ IsModelReady(model)
  /\ cameraError /\ stream = "none"

\* C8: the phase changes only along initializing -> scanning -> detected
\* -> recording, one edge per step; `idle` and `recording` are never left.
C8_PhaseEdges ==
  [][\/ detectionState' = detectionState
     \/ <<detectionState, detectionState'>> \in
          {<<"initializing", "scanning">>, <<"scanning", "detected">>,
           <<"detected", "recording">>}]_vars

\* C8 witness: a session completed, the phase still `recording`.
C8_Witness == detectionState = "recording" /\ SessionComplete

\* C9: a torn-down coordinator holds no live, unstopped camera stream.
C9_TornDownStreamStopped == ~mounted => stream # "live"

\* C10: setFaceData is never called by a detection pass that was in flight
\* when the detection loop effect was cleaned up.
C10_NoObservationAfterCleanup == ~lateObservation

\* C11: after CameraView unmounts, in any phase, no settle timer and no
\* recording interval is pending, and from then on the phase never changes
\* (so `recording` is never entered), no frame is sampled, no tick runs,
\* and neither onFrameCapture nor onCapture is invoked.
C11_TeardownCancelsTimers ==
  /\ [](~mounted => (detectTimeout = -1 /\ ~interval))
  /\ [][~mounted =>
          /\ detectionState' = detectionState
          /\ isRecording' = isRecording
          /\ frames' = frames
          /\ phasesSeen' = phasesSeen
          /\ notified' = notified
          /\ delivered' = delivered
          /\ onCaptureCalls' = onCaptureCalls]_vars

\* C11 witness: unmounted in the middle of a recording that had sampled
\* frames, or during the settle window.
C11_Witness ==
  /\ ~mounted
  /\ \/ isRecording /\ frames # <<>>
     \/ detectionState = "detected"

\* C12: while the detector's isActive is false, isRunningRef is false; the
\* step that turns isActive false leaves no animation frame referenced by
\* animationRef pending; and from then on, as long as isActive stays false,
\* no detection pass is started and the passes in flight and frames
\* pending never grow in number: a pass in flight requests one frame when
\* it resolves, and every animation-frame callback returns without
\* detecting and without requesting another frame.
C12_InactiveStopsPolling ==
  /\ [](~isActive => ~isRunningRef)
  /\ [][(isActive /\ ~isActive') => ~rafPending']_vars
  /\ [][(~isActive /\ ~isActive') =>
          /\ inflight' + inflightStale' <= inflight + inflightStale
          /\ PendingCallbacks' <= PendingCallbacks
          /\ (inflight' + inflightStale' = inflight + inflightStale
               /\ <<rafPending', rafOrphans'>> # <<rafPending, rafOrphans>>)
              => PendingCallbacks' = PendingCallbacks - 1]_vars

\* C12 witness: isActive is false, the model is loaded, and the frame that
\* a pass in flight at deactivation requested on resolving is pending.
C12_Witness ==
  /\ mounted /\ ~isActive /\ IsModelReady(model)
  /\ rafPending /\ inflight + inflightStale = 0

\* C13: the observation the detector holds satisfies centered => detected
\* in every reachable state: initially, after a pass with or without
\* faces, and after a failing or skipped pass.
C13_CenteredImpliesDetected == faceData.centered => faceData.detected

\* C13 witness: a pass failed while the observation held was a centered
\* face.
C13_Witness == passThrew /\ faceData.detected /\ faceData.centered

\* checkFaceCentered has returned for a box.
Checked == checkResult # <<>> /\ face # <<>>

\* The measures of the call, scaled to integers: the offsets of the box
\* center from the frame center (times 200) against 15% of the frame side,
\* the box area (times 100) against 5% and 40% of the frame area.
OffsetX == Abs(TwiceOffsetX(face, videoWidth)) * 100
OffsetY == Abs(TwiceOffsetY(face, videoHeight)) * 100
LimitX == 2 * tolerancePct * videoWidth
LimitY == 2 * tolerancePct * videoHeight
Area == FaceArea(face) * 100
MinArea == minAreaPct * (videoWidth * videoHeight)
MaxArea == maxAreaPct * (videoWidth * videoHeight)
OnePct == videoWidth * videoHeight

\* C14 as stated: the result is true iff both offsets are within 15%, the
\* area is at least 5% and the area is at most 40% of the frame area.
C14_FourConditionsAsStated ==
  Checked =>
    (checkResult[1] = (/\ OffsetX < LimitX /\ OffsetY < LimitY
                       /\ Area >= MinArea /\ Area <= MaxArea))

\* C14 amended: the result is true iff both offsets are less than 15% of
\* the frame side and the area is more than 5% and less than 40% of the
\* frame area; a missing face gives false.
C14_FourConditionsStrict ==
  /\ Checked =>
       (checkResult[1] = (/\ OffsetX < LimitX /\ OffsetY < LimitY
                          /\ Area > MinArea /\ Area < MaxArea))
  /\ (checkResult # <<>> /\ face = <<>>) => checkResult[1] = FALSE

\* C14 witness: a box centered within the tolerances whose area is exactly
\* 5% or exactly 40% of the frame area was rejected.
C14_Witness ==
  /\ Checked /\ OffsetX < LimitX /\ OffsetY < LimitY
  /\ Area \in {MinArea, MaxArea}
  /\ checkResult[1] = FALSE

\* C15: a box with an offset of exactly 15% of the frame side, or an area
\* of exactly 5% or exactly 40% of the frame area, is not centered; next
\* to the bounds, an area up to one point above 5% or below 40% (offsets
\* inside) is centered and one up to one point below 5% or above 40% is
\* not, and an offset less than 15% with the area inside is centered.
C15_BoundsExclusive ==
  Checked =>
    /\ (OffsetX = LimitX \/ OffsetY = LimitY) => checkResult[1] = FALSE
    /\ Area \in {MinArea, MaxArea} => checkResult[1] = FALSE
    /\ (/\ OffsetX < LimitX /\ OffsetY < LimitY
        /\ \/ Area > MinArea /\ Area <= MinArea + OnePct
           \/ Area < MaxArea /\ Area >= MaxArea - OnePct)
       => checkResult[1] = TRUE
    /\ (\/ Area < MinArea /\ Area >= MinArea - OnePct
        \/ Area > MaxArea /\ Area <= MaxArea + OnePct)
       => checkResult[1] = FALSE
    /\ (OffsetX > LimitX \/ OffsetY > LimitY) => checkResult[1] = FALSE

\* C15 witness: a box of a proper size, centered vertically, whose
\* horizontal offset is exactly 15% of the frame width was rejected.
C15_Witness ==
  /\ Checked /\ OffsetX = LimitX /\ OffsetY < LimitY
  /\ Area > MinArea /\ Area < MaxArea
  /\ checkResult[1] = FALSE

\* C16: after a detection pass that threw, and until the next pass
\* completes, the observation held is the not-detected one.
C16_FailedPassNotDetected == passThrew => faceData = noFace

\* A detection pass completes in this step by throwing.
PassThrows ==
  /\ inflight' + inflightStale' < inflight + inflightStale
  /\ passThrew'

\* C17: the step in which a detection pass throws leaves the coordinator's
\* phase and isRecording as they were and requests the next animation
\* frame, with isRunningRef still set if the detector is mounted, active
\* and its model loaded; and while the detector is mounted and active with
\* a loaded model its chain is alive: isRunningRef is set and a pass is in
\* flight or a frame pending.
C17_FailedPassKeepsPolling ==
  /\ [][PassThrows =>
          /\ detectionState' = detectionState
          /\ isRecording' = isRecording
          /\ rafPending'
          /\ (mounted /\ isActive /\ IsModelReady(model)) => isRunningRef']_vars
  /\ []((mounted /\ isActive /\ IsModelReady(model))
        => (isRunningRef /\ PendingCallbacks > 0))

\* C17 witness: a pass threw while the coordinator was scanning, and the
\* next frame is pending.
C17_Witness ==
  /\ mounted /\ isActive /\ passThrew
  /\ detectionState = "scanning" /\ rafPending /\ isRunningRef

\* C18: the load promise settles once and is never started again; a load
\* error is recorded only by a failed load, and a mounted detector whose
\* load failed has recorded it; after a failed load the model stays null,
\* no detection pass or frame is pending, the observation stays the
\* not-detected one, and an automatic-mode coordinator stays in
\* `initializing` without recording.
C18_LoadFailureIsFinal ==
  /\ [][loadPromise # "pending" => loadPromise' = loadPromise]_vars
  /\ [](error => loadPromise = "rejected")
  /\ [](loadPromise = "rejected" =>
          /\ ~IsModelReady(model)
          /\ mounted => (error /\ ~isLoading)
          /\ faceData = noFace
          /\ PendingCallbacks = 0
          /\ autoStart => (detectionState = "initializing" /\ ~isRecording))

\* C18 witness: the load failed under an automatic-mode coordinator whose
\* camera stream is live; it waits in `initializing`.
C18_Witness ==
  /\ loadPromise = "rejected" /\ error /\ mounted
  /\ autoStart /\ hasStream /\ stream = "live" /\ videoReady
  /\ detectionState = "initializing"

\* C19: the getUserMedia promise settles once and is never started again;
\* when it rejects under a mounted coordinator the step completes with
\* cameraError and hasStream both set; cameraError is set by nothing else,
\* and once set it is never cleared.
C19_CameraFailureIsFinal ==
  /\ [][camPromise # "pending" => camPromise' = camPromise]_vars
  /\ [][cameraError => cameraError']_vars
  /\ [](cameraError => (camPromise = "rejected" /\ hasStream))
  /\ []((camPromise = "rejected" /\ mounted) => (cameraError /\ hasStream))

\* C19 witness: acquisition failed under a mounted photo-mode coordinator.
C19_Witness ==
  /\ camPromise = "rejected" /\ mounted /\ ~isVideo
  /\ cameraError /\ hasStream /\ stream = "none"

\* C20: in degraded mode (cameraError) the detector is not active and
\* polls nothing, the observation is the not-detected one, the phase is
\* neither `detected` nor `recording`, no settle timer or recording
\* interval is pending, isRecording is false, and the recording loop has
\* run no tick, sampled no frame and delivered nothing.
C20_DegradedNeverRecords ==
  cameraError =>
    /\ ~isActive /\ ~isRunningRef /\ PendingCallbacks = 0
    /\ faceData = noFace
    /\ detectionState \notin {"detected", "recording"}
    /\ detectTimeout = -1
    /\ ~isRecording /\ ~interval
    /\ phasesSeen = {} /\ frames = <<>> /\ capturedFrames = <<>>
    /\ isVideo => (onCaptureCalls = 0 /\ delivered = <<>> /\ notified = <<>>)

\* C20 witness: degraded mode under a mounted automatic-mode coordinator
\* whose model is loaded: everything but the camera is ready to record.
C20_Witness ==
  /\ cameraError /\ mounted /\ isVideo /\ autoStart
  /\ IsModelReady(model) /\ ~isActive /\ ~isRecording

\* C22: in manual (non-video) mode the coordinator stays in `idle` and
\* never records, and what a manual capture delivered through onCapture
\* is exactly one Frame.
C22_ManualCaptureOneFrame ==
  ~isVideo =>
    /\ detectionState = "idle" /\ ~isRecording
    /\ onCaptureCalls > 0 => (Len(delivered) = 1 /\ delivered[1] # NullFrame)

\* C23: once a video-mode session has completed, no interval and no
\* settle timer is pending and isRecording is false, and no later step
\* runs a tick, samples a frame, invokes onFrameCapture or onCapture, or
\* changes the phase or isRecording.
C23_CompletedSessionIsFinal ==
  /\ [](SessionComplete =>
          (~interval /\ ~isRecording /\ detectTimeout = -1 /\ frames = <<>>))
  /\ [][SessionComplete =>
          /\ onCaptureCalls' = onCaptureCalls
          /\ delivered' = delivered
          /\ notified' = notified
          /\ phasesSeen' = phasesSeen
          /\ progress' = progress
          /\ isRecording' = isRecording
          /\ detectionState' = detectionState]_vars

\* C23 witness: a session completed with frames delivered, and the parent
\* has rendered again since.
C23_Witness ==
  /\ SessionComplete /\ mounted /\ delivered # <<>>
  /\ ~interval /\ progress = 100 * totalDuration

IsPrefix(s, t) == Len(s) <= Len(t) /\ SubSeq(t, 1, Len(s)) = s

\* C24: a frame is passed to onFrameCapture in the step that appends it;
\* while recording goes on, the frames appended (and notified) so far
\* stay, in order, at the head of the session's sequence; and the
\* sequence delivered at completion is the sequence notified.
C24_PushedNotifications ==
  /\ [][(onFrameCapture /\ Len(frames') > Len(frames))
        => notified' = Append(notified, frames'[Len(frames')])]_vars
  /\ [][(isRecording /\ isRecording') => IsPrefix(frames, frames')]_vars
  /\ []((SessionComplete /\ onFrameCapture) => delivered = notified)

\* C25: at most one recording interval timer is live, and it is the one
\* the current closure of the recording effect holds.
C25_AtMostOneInterval ==
  /\ liveIntervals <= 1
  /\ interval = (liveIntervals = 1)

\* C25 witness: a recording session is running and has sampled two
\* frames.
C25_Witness ==
  /\ isRecording /\ interval /\ liveIntervals = 1
  /\ Len(frames) = 2

StrictlyIncreasing(s) == \A i, j \in 1 .. Len(s) : i < j => s[i] < s[j]

\* C26: when recording ticks run late by any of the modelled delays, the
\* phase indices of the captured frames are strictly increasing (a phase may
\* be skipped, none is repeated or reordered), a frame is taken only in a
\* phase a tick observed, a live session has never observed 12500 ms without
\* completing, and the session completes at most once, on a tick that
\* observes at least 12500 ms.
C26_LateTicksKeepOrder ==
  /\ [](StrictlyIncreasing(frames) /\ StrictlyIncreasing(delivered))
  /\ [](\A i \in 1 .. Len(frames) : frames[i] # NullFrame => frames[i] \in phasesSeen)
  /\ [](interval => elapsed < totalDuration)
  /\ [](isVideo => onCaptureCalls <= 1)
  /\ [][onCaptureCalls' > onCaptureCalls =>
          /\ interval /\ ~interval'
          /\ elapsed < totalDuration
          /\ progress' = 100 * totalDuration
          /\ IsPrefix(frames, delivered')]_vars

\* A session that completed after late ticks skipped a phase: every sample
\* succeeded, and yet fewer than five frames were delivered.
C26_Witness ==
  /\ SessionComplete /\ samplesOk /\ ~onSchedule
  /\ delivered # <<>> /\ Len(delivered) < totalPhases
  /\ \E ph \in 1 .. totalPhases - 1 : \A i \in 1 .. Len(delivered) : delivered[i] # ph


\* A task of the component is pending: a promise, a timer, an interval, an
\* animation frame or a detection pass.
TaskPending ==
  \/ camPromise = "pending" \/ loadPromise = "pending"
  \/ detectTimeout >= 0 \/ interval
  \/ rafPending \/ rafOrphans > 0 \/ inflight > 0 \/ inflightStale > 0

\* C21: a camera failure does not block the video step: while a mounted
\* video-mode coordinator with cameraError set has not invoked onCapture,
\* a task is still pending that can bring the session forward.
C21_DegradedVideoNotBlocked ==
  (mounted /\ isVideo /\ cameraError /\ onCaptureCalls = 0) => TaskPending


\* No CameraView rendered by IdentityVerificationApp leaves "idle": the
\* instance mounted in step 1 computed its initial detectionState with
\* autoStart undefined and is kept in step 2, where the auto-detection
\* effect finds no branch for "idle". So no settle timer is armed, nothing is
\* recorded and the video-mode onCapture, handleVideoCapture, is never called.
FlowViewIdle ==
  /\ detectionState = "idle" /\ ~isRecording /\ detectTimeout = -1
  /\ ~interval /\ liveIntervals = 0 /\ ~videoTaken
  /\ mounted => (isVideo <=> step = 2)

\* C27: the flow controller advances one stage at a time in the order
\* intro(0), photo(1), video(2), processing(3), result(4): the step changes
\* by one (or back to 0 on restart), stays within 0..4, the photo stage is
\* left only after a photo capture and the video stage only after a
\* completed video capture, whatever the user does, several manual captures
\* in the photo step included.
C27_OneStageAtATime ==
  /\ [](step \in 0 .. 4)
  /\ [][step' # step => (step' = step + 1 \/ step' = 0)]_vars
  /\ [](step >= 2 => photoTaken)
  /\ [](step >= 3 => videoTaken)

\* C28: while the coordinator is in "idle" there is no detector activity:
\* isActive is false, no detection pass runs or is scheduled, and faceData
\* has its initial value.
C28_IdleNoDetector ==
  (mounted /\ detectionState = "idle") =>
    /\ ~isActive
    /\ ~rafPending /\ inflight = 0 /\ ~isRunningRef
    /\ faceData = noFace

\* C30: in manual mode a capture whose sample is null is skipped: it leaves
\* the flow state as it was, photoTaken is set only with a stored texture
\* photo, and the flow is in the video step or beyond only with one.
C30_NullCaptureSkipped ==
  /\ [][(onCaptureCalls' = onCaptureCalls + 1 /\ delivered' = <<NullFrame>>)
          => UNCHANGED flowVars]_vars
  /\ [](photoTaken => texturePhoto)
  /\ []((step >= 2 /\ currentPersona) => texturePhoto)


\* C31: a detection tick that finds the video source not decodable invokes
\* no pass of the model and leaves the next animation frame requested; the
\* model is never invoked in a step that starts with the source not
\* decodable; faceData changes only when a pass resumes and error only when
\* the model load settles; and before the model is loaded no tick runs at
\* all.
C31_NotReadyTickSkipped ==
  /\ []((isRunningRef /\ ~CanRun) =>
          LET c == RunDetection(Chain, CanRun)
          IN c.fresh = inflight /\ c.stale = inflightStale /\ c.raf /\ c.anim
             /\ c.run)
  /\ [][~CanRun => inflight' <= inflight]_vars
  /\ [][faceData' # faceData =>
          inflight' + inflightStale' < inflight + inflightStale]_vars
  /\ [][error' # error => loadPromise = "pending"]_vars
  /\ [](~IsModelReady(model) =>
          (~isRunningRef /\ ~rafPending /\ inflight = 0 /\ faceData = noFace))

\* The loop runs on a source that is not decodable: a tick was skipped and
\* the next one is requested, with an observation published earlier intact.
C31_Witness ==
  /\ mounted /\ isActive /\ isRunningRef /\ ~videoReady
  /\ rafPending /\ inflight = 0 /\ faceData.detected /\ ~error


\* C32: a recording session is never restarted: between two states of a
\* mounted component that both have isRecording set, the session's clock
\* does not go back, its last-seen phase does not go back and its frame
\* list only grows, whatever happens in between, a parent re-render with a
\* new onCapture identity included.
C32_SessionNeverRestarted ==
  [][(isRecording /\ isRecording' /\ mounted') =>
       /\ elapsed' >= elapsed
       /\ lastPhase' >= lastPhase
       /\ Len(frames') >= Len(frames)
       /\ SubSeq(frames', 1, Len(frames)) = frames]_vars


\* C33: at most one polling chain is live per detector: while isRunningRef
\* is set, at most one callback that will go on polling is pending (a pass
\* started under the current loop effect or an animation frame), also after
\* isActive went true, false, true while a pass was in flight.
C33_OneLiveChain ==
  isRunningRef =>
    inflight + rafOrphans + (IF rafPending THEN 1 ELSE 0) <= 1


\* C34: in every reachable state of a coordinator, isRecording implies
\* that detectionState is "recording", that the component is in video mode
\* with hasStream set and cameraError clear.
C34_RecordingImpliesPhase ==
  isRecording =>
    (detectionState = "recording" /\ isVideo /\ hasStream /\ ~cameraError)

\* A session is recording and has captured a frame.
C34_Witness ==
  /\ isRecording /\ interval /\ frames # <<>>
  /\ detectionState = "recording" /\ hasStream /\ ~cameraError


\* C35: the flow step is always in 0..4, whatever the sequence of start,
\* capture, validation-complete, restart and timer events, and restart
\* returns it to 0.
C35_StepInRange ==
  /\ [](step \in 0 .. 4)
  /\ [][(step = 4 /\ step' < step) => step' = 0]_vars


\* The persona getById(id) finds in the item the step leaves.
GetByIdAfter(id) == GetByIdIn(GetAllOf(localStorage'), id)

\* C36: after handleVideoCapture(frames) for an existing persona, the
\* persona's volumetricFrames are its previous ones followed by the frames
\* in delivered order, and its texture photo is the one it had; and
\* addVolumetricFrame keeps the earlier frames and the texture photo.
C36_FramesKeepOrder ==
  /\ [][(called'.op = "handleVideoCapture" /\ GetById(called'.id) # <<>>) =>
          /\ GetByIdAfter(called'.id) # <<>>
          /\ GetByIdAfter(called'.id)[1].volumetricFrames =
               GetById(called'.id)[1].volumetricFrames \o called'.arg
          /\ GetByIdAfter(called'.id)[1].texturePhoto =
               GetById(called'.id)[1].texturePhoto]_vars
  /\ [][(called'.op = "addVolumetricFrame" /\ GetById(called'.id) # <<>>) =>
          /\ GetByIdAfter(called'.id) # <<>>
          /\ IsPrefix(GetById(called'.id)[1].volumetricFrames,
                      GetByIdAfter(called'.id)[1].volumetricFrames)
          /\ GetByIdAfter(called'.id)[1].texturePhoto =
               GetById(called'.id)[1].texturePhoto]_vars


\* C37: getActive returns the most recent incomplete persona (the last one
\* in the list with captureComplete false) when there is one, otherwise
\* the last created persona, and null when the store is empty.
C37_GetActiveMostRecent ==
  called.op = "getActive" =>
    LET personas == GetAll
        incomplete == SelectSeq(personas,
                                LAMBDA p : ~p.metadata.captureComplete)
    IN returned = IF incomplete # <<>> THEN <<incomplete[Len(incomplete)]>>
                  ELSE IF personas # <<>> THEN <<personas[Len(personas)]>>
                  ELSE <<>>


\* The methods that write through update(id, updates).
UpdateOps == {"saveTexturePhoto", "addVolumetricFrame", "markComplete"}

\* C38: writes round-trip: when saveTexturePhoto, addVolumetricFrame or
\* markComplete (each a call of update) returns a persona, getById with the
\* same id then returns an equal persona, also when the localStorage write
\* failed; and a call with an unknown id returns null and leaves the stored
\* item as it was.
C38_WritesRoundTrip ==
  /\ [][(called'.op \in UpdateOps /\ returned' # <<>>) =>
          GetByIdAfter(called'.id) = returned']_vars
  /\ [][(called'.op \in UpdateOps /\ GetById(called'.id) = <<>>) =>
          (returned' = <<>> /\ localStorage' = localStorage)]_vars


\* C39: persona identifiers are unique: no two personas of the stored list
\* share an id, after any sequence of create and delete calls, two create
\* calls within one millisecond included.
C39_IdsUnique ==
  \A i, j \in 1 .. Len(GetAll) : i # j => GetAll[i].id # GetAll[j].id

====
